---- MODULE Spec2Model ----
(***************************************************************************)
(* Model of ci/generate_azure_pipelines_matrices.py: the job catalog, the *)
(* BuildJob helpers, the matrix generation loop and the marker lines       *)
(* printed for Azure Pipelines.                                            *)
(*                                                                         *)
(* Python strings are TLA+ strings (Len, \o and SubSeq act on them as on   *)
(* Python's str).  A value that may be None is a tagged record (Str/None). *)
(* A dict, ordered as in Python, is a sequence of <<key, value>> pairs.    *)
(***************************************************************************)
EXTENDS Integers, Sequences, FiniteSets, TLC

VARIABLES
    windows_build_jobs,   \* the catalog of the "windows" platform
    python_versions,      \* the list of interpreter versions
    matrices,             \* dict: platform -> matrix_dictionary
    matrix_dictionary,    \* OrderedDict being built for the current platform
    key,                  \* key derived by the last loop iteration
    platform_index,       \* position of the outer for loop (1-based)
    product_index,        \* position of the inner for loop over product(...)
    stdout,               \* lines printed so far
    pc                    \* "outer", "inner", "print_*", "done", "error"

vars == <<windows_build_jobs, python_versions, matrices, matrix_dictionary,
          key, platform_index, product_index, stdout, pc>>

----------------------------------------------------------------------------
(* Bounds of the model *)

MaxJobs == 2
MaxPythonVersions == 2

----------------------------------------------------------------------------
(* Python values *)

None == [t |-> "none", s |-> ""]
Str(s) == [t |-> "str", s |-> s]
NoDict == [t |-> "none", d |-> <<>>]
Dict(d) == [t |-> "dict", d |-> d]

\* truth value of an Optional[str]: None and "" are falsy
Truthy(v) == v.t = "str" /\ v.s # ""

\* truth value of an Optional[dict]: None and {} are falsy
DictTruthy(v) == v.t = "dict" /\ v.d # <<>>

\* str(x) as used by str.format and f-strings
PyStr(v) == IF v.t = "none" THEN "None" ELSE v.s

\* str(bool)
BoolStr(b) == IF b THEN "True" ELSE "False"

Char(s, i) == SubSeq(s, i, i)

\* dict.get(k, default) on a sequence of pairs
DictGet(d, k, default) ==
    IF \E i \in 1..Len(d) : d[i][1] = k
    THEN d[CHOOSE i \in 1..Len(d) : d[i][1] = k][2]
    ELSE default

DictHas(d, k) == \E i \in 1..Len(d) : d[i][1] = k

\* dict.setdefault(k, v): an existing key keeps its value
DictSetDefault(d, k, v) ==
    IF DictHas(d, k) THEN d ELSE Append(d, <<k, v>>)

\* d[k] = v on an ordered dict: an existing key keeps its position and gets
\* the new value, a new key is appended
DictSet(d, k, v) ==
    IF DictHas(d, k)
    THEN [i \in 1..Len(d) |-> IF d[i][1] = k THEN <<k, v>> ELSE d[i]]
    ELSE Append(d, <<k, v>>)

\* collections.OrderedDict(list of pairs)
RECURSIVE OrderedDict(_)
OrderedDict(pairs) ==
    IF pairs = <<>> THEN <<>>
    ELSE LET n == Len(pairs)
         IN DictSet(OrderedDict(SubSeq(pairs, 1, n - 1)), pairs[n][1], pairs[n][2])

\* str.split(c, 1): only the first separator splits
SplitOnce(s, c) ==
    IF \E i \in 1..Len(s) : Char(s, i) = c
    THEN LET i == CHOOSE p \in 1..Len(s) :
                     Char(s, p) = c /\ \A q \in 1..(p - 1) : Char(s, q) # c
         IN <<SubSeq(s, 1, i - 1), SubSeq(s, i + 1, Len(s))>>
    ELSE <<s>>

\* str.split(c) for a one-character separator
RECURSIVE Split(_, _)
Split(s, c) ==
    IF \E i \in 1..Len(s) : Char(s, i) = c
    THEN LET i == CHOOSE p \in 1..Len(s) :
                     Char(s, p) = c /\ \A q \in 1..(p - 1) : Char(s, q) # c
         IN <<SubSeq(s, 1, i - 1)>> \o Split(SubSeq(s, i + 1, Len(s)), c)
    ELSE <<s>>

\* itertools.product(a, b): a is the outer loop, b the inner one
Product(a, b) ==
    [i \in 1..(Len(a) * Len(b)) |->
        <<a[((i - 1) \div Len(b)) + 1], b[((i - 1) % Len(b)) + 1]>>]

----------------------------------------------------------------------------
(* class BuildJob *)

MIRRORS == <<"https://ftp.jaist.ac.jp/pub/qtproject",
             "https://ftp1.nluug.nl/languages/qt",
             "https://mirrors.dotsrc.org/qtproject">>

\* keyword arguments of BuildJob.__init__ at their defaults
DefaultKw ==
    [module |-> None, mirror |-> None, subarchives |-> None,
     output_dir |-> None, list_options |-> NoDict, spec |-> None,
     mingw_variant |-> "", is_autodesktop |-> FALSE,
     tool_options |-> NoDict, check_output_cmd |-> None,
     emsdk_version |-> "sdk-fastcomp-1.38.27-64bit@3.1.29",
     autodesk_arch_folder |-> None]

\* DefaultKw with the keyword arguments of record kw given
With(kw) ==
    [f \in DOMAIN DefaultKw |-> IF f \in DOMAIN kw THEN kw[f] ELSE DefaultKw[f]]

BuildJob(command, qt_version, host, target, arch, archdir, kw) ==
    [command |-> command, qt_version |-> qt_version, host |-> host,
     target |-> target, arch |-> arch, archdir |-> archdir,
     module |-> kw.module, mirror |-> kw.mirror,
     subarchives |-> kw.subarchives,
     mingw_variant |-> kw.mingw_variant,
     is_autodesktop |-> kw.is_autodesktop,
     list_options |-> IF DictTruthy(kw.list_options) THEN kw.list_options.d ELSE <<>>,
     tool_options |-> IF DictTruthy(kw.tool_options) THEN kw.tool_options.d ELSE <<>>,
     spec |-> kw.spec, output_dir |-> kw.output_dir,
     check_output_cmd |-> kw.check_output_cmd,
     emsdk_version |-> kw.emsdk_version,
     autodesk_arch_folder |-> kw.autodesk_arch_folder]

\* qt_bindir without the "5.9" directory of Qt 5.9.0
qt_bindir_verbatim(self, sep) ==
    LET out_dir == IF ~Truthy(self.output_dir)
                   THEN "$(Build.BinariesDirectory)" \o sep \o "Qt"
                   ELSE PyStr(self.output_dir)
    IN out_dir \o sep \o self.qt_version \o sep \o self.archdir \o sep \o "bin"

qt_bindir(self, sep) ==
    LET out_dir == IF ~Truthy(self.output_dir)
                   THEN "$(Build.BinariesDirectory)" \o sep \o "Qt"
                   ELSE PyStr(self.output_dir)
        version_dir == IF self.qt_version = "5.9.0" THEN "5.9" ELSE self.qt_version
    IN out_dir \o sep \o version_dir \o sep \o self.archdir \o sep \o "bin"

win_qt_bindir(self) == qt_bindir(self, "\\")

autodesk_qt_bindir(self, sep) ==
    LET out_dir == IF ~Truthy(self.output_dir)
                   THEN "$(Build.BinariesDirectory)" \o sep \o "Qt"
                   ELSE PyStr(self.output_dir)
        version_dir == IF self.qt_version = "5.9.0" THEN "5.9" ELSE self.qt_version
        arch_folder == IF Truthy(self.autodesk_arch_folder)
                       THEN PyStr(self.autodesk_arch_folder)
                       ELSE self.archdir
    IN out_dir \o sep \o version_dir \o sep \o arch_folder \o sep \o "bin"

win_autodesk_qt_bindir(self) == autodesk_qt_bindir(self, "\\")

Digits == {"0", "1", "2", "3", "4", "5", "6", "7", "8", "9"}

\* length of the longest run of digits of s that starts at position i (\d+ is greedy)
RECURSIVE DigitRun(_, _)
DigitRun(s, i) ==
    IF i <= Len(s) /\ Char(s, i) \in Digits THEN 1 + DigitRun(s, i + 1) ELSE 0

StartsWithAt(s, i, lit) ==
    i + Len(lit) - 1 <= Len(s) /\ SubSeq(s, i, i + Len(lit) - 1) = lit

\* re.match(r"^win(\d+)_(mingw\d+)$", s): <<>> stands for None, otherwise the
\* groups <<match[0], match[1], match[2]>>.  "$" matches at the end of the
\* string and also just before a newline that ends the string.
re_match_mingw(s) ==
    LET a == DigitRun(s, 4)
        m == 4 + a
        b == DigitRun(s, m + 6)
        e == m + 6 + b
    IN IF /\ StartsWithAt(s, 1, "win")
          /\ a >= 1
          /\ StartsWithAt(s, m, "_mingw")
          /\ b >= 1
          /\ \/ e = Len(s) + 1
             \/ e = Len(s) /\ Char(s, e) = "\n"
       THEN <<SubSeq(s, 1, e - 1), SubSeq(s, 4, m - 1), SubSeq(s, m + 1, e - 1)>>
       ELSE <<>>

\* mingw_folder with the two groups in the order of the variant
mingw_folder_unswapped(self) ==
    IF self.mingw_variant = ""
    THEN [raised |-> FALSE, value |-> ""]
    ELSE LET match == re_match_mingw(self.mingw_variant)
         IN IF match = <<>>
            THEN [raised |-> TRUE, value |-> ""]
            ELSE [raised |-> FALSE, value |-> match[2] \o "_" \o match[3]]

\* mingw_folder(): raised is TRUE when match[2] is evaluated on None (TypeError)
mingw_folder(self) ==
    IF self.mingw_variant = ""
    THEN [raised |-> FALSE, value |-> ""]
    ELSE LET match == re_match_mingw(self.mingw_variant)
         IN IF match = <<>>
            THEN [raised |-> TRUE, value |-> ""]
            ELSE [raised |-> FALSE, value |-> match[3] \o "_" \o match[2]]

PlatformBuildJobs(platform, build_jobs) ==
    [platform |-> platform, build_jobs |-> build_jobs]

----------------------------------------------------------------------------
(* The catalogs *)

\* the two jobs of windows_build_jobs.extend([...]); the mirror is random.choice(MIRRORS)
ShippedJobs(mirror1, mirror2) ==
    <<BuildJob("install-qt", "5.11.3", "windows", "desktop",
               "win64_msvc2015_64", "msvc2015_64",
               With([subarchives |-> Str("qttools qtbase qtwinextras qtmultimedia"),
                     mirror |-> Str(mirror1)])),
      BuildJob("install-qt", "5.11.3", "windows", "desktop",
               "win32_mingw53", "mingw53_32",
               With([mingw_variant |-> "win32_mingw530",
                     subarchives |-> Str("qttools qtbase qtwinextras qtmultimedia"),
                     mirror |-> Str(mirror2)]))>>

qt_creator_bin_path == "./Tools/QtCreator/bin/"
qt_ifw_bin_path == "./Tools/QtInstallerFramework/*/bin/"

tool_options ==
    << <<"TOOL1_ARGS", "tools_qtcreator qt.tools.qtcreator">>,
       <<"LIST_TOOL1_CMD", "ls " \o qt_creator_bin_path>>,
       <<"TEST_TOOL1_CMD", qt_creator_bin_path \o "qbs --version">>,
       <<"TOOL2_ARGS", "tools_ifw">>,
       <<"TEST_TOOL2_CMD", qt_ifw_bin_path \o "archivegen --version">>,
       <<"LIST_TOOL2_CMD", "ls " \o qt_ifw_bin_path>> >>

\* a desktop job with the given keyword arguments
Desktop(qt_version, kw) ==
    BuildJob("install-qt", qt_version, "windows", "desktop",
             "win64_msvc2019_64", "msvc2019_64", With(kw))

\* jobs that differ in the fields the key is built from
KeyJobs ==
    { Desktop("6.5.0", [spec |-> Str("6.5"), emsdk_version |-> "sdk-1.39.8-64bit"]),
      Desktop("6.5.0", [spec |-> Str("6.5"), module |-> Str("qtcharts"),
                        subarchives |-> Str("qtbase"), output_dir |-> Str("out"),
                        emsdk_version |-> "sdk@2.0@x"]),
      BuildJob("install-src", "6.5.0", "windows", "android", "gcc_64", "gcc_64",
               With([spec |-> Str(""), module |-> Str("qtcharts qtscript"),
                     subarchives |-> Str(""), output_dir |-> Str(""),
                     emsdk_version |-> "sdk@"])) }

\* jobs that differ in the fields the bin-dir paths are built from
PathJobs ==
    { Desktop("5.9.0", [emsdk_version |-> "", autodesk_arch_folder |-> Str("")]),
      Desktop("5.9.0", [output_dir |-> Str("out"), is_autodesktop |-> TRUE,
                        autodesk_arch_folder |-> Str("mingw_64")]) }

\* jobs that differ in mingw_variant
MingwJobs ==
    { Desktop("5.11.3", [mingw_variant |-> mv]) :
        mv \in {"win32_mingw530\n", "win_mingw53", "win32_mingw530x"} }

\* jobs that differ in the option dicts and the remaining optional fields
OptionJobs ==
    { Desktop("6.1.0", [tool_options |-> Dict(<< <<"TOOL1_ARGS", "tools_ifw">> >>),
                        list_options |-> Dict(<<>>),
                        check_output_cmd |-> Str("ls -lh ./Examples")]),
      Desktop("6.1.0", [tool_options |-> Dict(tool_options),
                        list_options |-> Dict(<< <<"HAS_WASM", "False">> >>),
                        check_output_cmd |-> Str(""), mirror |-> Str("")]) }

\* the jobs a catalog is drawn from
JobSet ==
    { ShippedJobs(MIRRORS[1], MIRRORS[3])[i] : i \in 1..2 }
    \cup KeyJobs \cup PathJobs \cup MingwJobs \cup OptionJobs

\* sequences over S of length at most n
RECURSIVE SeqsUpTo(_, _)
SeqsUpTo(S, n) ==
    IF n = 0 THEN {<<>>}
    ELSE LET shorter == SeqsUpTo(S, n - 1)
         IN shorter \cup {Append(q, x) : q \in {r \in shorter : Len(r) = n - 1}, x \in S}

Catalogs ==
    SeqsUpTo(JobSet, MaxJobs)
    \cup {ShippedJobs(MIRRORS[m1], MIRRORS[m2]) : m1, m2 \in 1..Len(MIRRORS)}

SupportedPythonVersions == <<"3.9", "3.12", "3.13", "3.8">>

PythonVersionLists ==
    {SubSeq(SupportedPythonVersions, 1, n) : n \in 1..MaxPythonVersions}

linux_build_jobs == <<>>
mac_build_jobs == <<>>

all_platform_build_jobs(jobs) == <<PlatformBuildJobs("windows", jobs)>>

----------------------------------------------------------------------------
(* The matrix generation loop *)

\* MatrixKey with "is not None" tests in place of the truth tests
MatrixKeyNotNone(build_job) ==
    LET k0 == build_job.command \o " " \o build_job.qt_version \o " "
                  \o build_job.arch \o " for " \o build_job.target
        k1 == IF build_job.spec.t # "none"
              THEN k0 \o " (spec=\"" \o PyStr(build_job.spec) \o "\")" ELSE k0
        k2 == IF build_job.module.t # "none"
              THEN k1 \o " (" \o PyStr(build_job.module) \o ")" ELSE k1
        k3 == IF build_job.subarchives.t # "none"
              THEN k2 \o " (" \o PyStr(build_job.subarchives) \o ")" ELSE k2
        k4 == IF build_job.output_dir.t # "none"
              THEN k3 \o " (" \o PyStr(build_job.output_dir) \o ")" ELSE k3
    IN k4

\* the key of one (build_job, python_version) combination
MatrixKey(build_job) ==
    LET k0 == build_job.command \o " " \o build_job.qt_version \o " "
                  \o build_job.arch \o " for " \o build_job.target
        k1 == IF Truthy(build_job.spec)
              THEN k0 \o " (spec=\"" \o PyStr(build_job.spec) \o "\")" ELSE k0
        k2 == IF Truthy(build_job.module)
              THEN k1 \o " (" \o PyStr(build_job.module) \o ")" ELSE k1
        k3 == IF Truthy(build_job.subarchives)
              THEN k2 \o " (" \o PyStr(build_job.subarchives) \o ")" ELSE k2
        k4 == IF Truthy(build_job.output_dir)
              THEN k3 \o " (" \o PyStr(build_job.output_dir) \o ")" ELSE k3
    IN k4

\* x passed on as it is, None included
OrNone(v) == v

\* x if x else ""
OrEmpty(v) == IF Truthy(v) THEN v ELSE Str("")

\* the list of (name, value) pairs handed to collections.OrderedDict
MatrixVariables(build_job, python_version) ==
    << <<"PYTHON_VERSION", Str(python_version)>>,
       <<"SUBCOMMAND", Str(build_job.command)>>,
       <<"QT_VERSION", Str(build_job.qt_version)>>,
       <<"HOST", Str(build_job.host)>>,
       <<"TARGET", Str(build_job.target)>>,
       <<"ARCH", Str(build_job.arch)>>,
       <<"ARCHDIR", Str(build_job.archdir)>>,
       <<"MODULE", OrEmpty(build_job.module)>>,
       <<"QT_BASE_MIRROR", OrEmpty(build_job.mirror)>>,
       <<"SUBARCHIVES", OrEmpty(build_job.subarchives)>>,
       <<"SPEC", OrEmpty(build_job.spec)>>,
       <<"MINGW_VARIANT", Str(build_job.mingw_variant)>>,
       <<"MINGW_FOLDER", Str(mingw_folder(build_job).value)>>,
       <<"IS_AUTODESKTOP", Str(BoolStr(build_job.is_autodesktop))>>,
       <<"HAS_WASM", Str(DictGet(build_job.list_options, "HAS_WASM", "True"))>>,
       <<"OUTPUT_DIR", OrEmpty(build_job.output_dir)>>,
       <<"QT_BINDIR", Str(qt_bindir(build_job, "/"))>>,
       <<"WIN_QT_BINDIR", Str(win_qt_bindir(build_job))>>,
       <<"EMSDK_VERSION", Str(Split(build_job.emsdk_version \o "@main", "@")[1])>>,
       <<"EMSDK_TAG", Str(Split(build_job.emsdk_version \o "@main", "@")[2])>>,
       <<"WIN_AUTODESK_QT_BINDIR", Str(win_autodesk_qt_bindir(build_job))>>,
       <<"TOOL1_ARGS", Str(DictGet(build_job.tool_options, "TOOL1_ARGS", ""))>>,
       <<"LIST_TOOL1_CMD", Str(DictGet(build_job.tool_options, "LIST_TOOL1_CMD", ""))>>,
       <<"TEST_TOOL1_CMD", Str(DictGet(build_job.tool_options, "TEST_TOOL1_CMD", ""))>>,
       <<"TOOL2_ARGS", Str(DictGet(build_job.tool_options, "TOOL2_ARGS", ""))>>,
       <<"LIST_TOOL2_CMD", Str(DictGet(build_job.tool_options, "LIST_TOOL2_CMD", ""))>>,
       <<"TEST_TOOL2_CMD", Str(DictGet(build_job.tool_options, "TEST_TOOL2_CMD", ""))>>,
       <<"CHECK_OUTPUT_CMD", OrEmpty(build_job.check_output_cmd)>> >>

Platforms == all_platform_build_jobs(windows_build_jobs)

\* the combinations the inner loop of the current platform runs over
Combinations == Product(Platforms[platform_index].build_jobs, python_versions)

Init ==
    /\ windows_build_jobs \in Catalogs
    /\ python_versions \in PythonVersionLists
    /\ matrices = <<>>
    /\ matrix_dictionary = <<>>
    /\ key = ""
    /\ platform_index = 1
    /\ product_index = 1
    /\ stdout = <<>>
    /\ pc = "outer"

\* for platform_build_job in all_platform_build_jobs: matrix_dictionary = OrderedDict()
StartPlatform ==
    /\ pc = "outer"
    /\ platform_index <= Len(Platforms)
    /\ matrix_dictionary' = <<>>
    /\ product_index' = 1
    /\ pc' = "inner"
    /\ UNCHANGED <<windows_build_jobs, python_versions, matrices, key,
                   platform_index, stdout>>

\* one iteration of the inner loop that stores its entry
LoopBody ==
    /\ pc = "inner"
    /\ product_index <= Len(Combinations)
    /\ LET build_job == Combinations[product_index][1]
           python_version == Combinations[product_index][2]
       IN /\ ~mingw_folder(build_job).raised
          /\ key' = MatrixKey(build_job)
          /\ matrix_dictionary' =
                 DictSet(matrix_dictionary, MatrixKey(build_job),
                         OrderedDict(MatrixVariables(build_job, python_version)))
    /\ product_index' = product_index + 1
    /\ UNCHANGED <<windows_build_jobs, python_versions, matrices,
                   platform_index, stdout, pc>>

\* one iteration of the inner loop in which build_job.mingw_folder() raises
\* TypeError: the key has been assigned, the entry is not stored, the
\* interpreter prints the traceback on stderr and exits with status 1
LoopBodyRaises ==
    /\ pc = "inner"
    /\ product_index <= Len(Combinations)
    /\ LET build_job == Combinations[product_index][1]
       IN /\ mingw_folder(build_job).raised
          /\ key' = MatrixKey(build_job)
    /\ pc' = "error"
    /\ UNCHANGED <<windows_build_jobs, python_versions, matrices,
                   matrix_dictionary, platform_index, product_index, stdout>>

\* the inner loop is exhausted: matrices[platform] = matrix_dictionary
EndPlatform ==
    /\ pc = "inner"
    /\ product_index > Len(Combinations)
    /\ matrices' = DictSet(matrices, Platforms[platform_index].platform,
                           matrix_dictionary)
    /\ platform_index' = platform_index + 1
    /\ pc' = "outer"
    /\ UNCHANGED <<windows_build_jobs, python_versions, matrix_dictionary, key,
                   product_index, stdout>>

----------------------------------------------------------------------------
(* json.dumps and the print statements *)

\* the characters of the model's alphabet that json.dumps escapes
JsonSpecial == {"\"", "\\", "\n"}

\* json.dumps without the escapes
JsonEscapeNothing(s) == s

\* the escapes json.dumps applies to the characters of a str: the text up to
\* the first special character is copied, the character is escaped, and the
\* rest is treated the same way
RECURSIVE JsonEscape(_)
JsonEscape(s) ==
    IF \A i \in 1..Len(s) : Char(s, i) \notin JsonSpecial THEN s
    ELSE LET i == CHOOSE p \in 1..Len(s) :
                     /\ Char(s, p) \in JsonSpecial
                     /\ \A q \in 1..(p - 1) : Char(s, q) \notin JsonSpecial
             c == Char(s, i)
             e == CASE c = "\"" -> "\\\""
                    [] c = "\\" -> "\\\\"
                    [] c = "\n" -> "\\n"
         IN SubSeq(s, 1, i - 1) \o e \o JsonEscape(SubSeq(s, i + 1, Len(s)))

JsonString(s) == "\"" \o JsonEscape(s) \o "\""

\* json.dumps of a str or None
JsonValue(v) == IF v.t = "none" THEN "null" ELSE JsonString(v.s)

\* the members of a dict of str/None values, joined with ", "
RECURSIVE JsonInnerMembers(_)
JsonInnerMembers(d) ==
    IF d = <<>> THEN ""
    ELSE JsonString(d[1][1]) \o ": " \o JsonValue(d[1][2])
         \o (IF Len(d) > 1 THEN ", " ELSE "") \o JsonInnerMembers(Tail(d))

JsonInner(d) == "{" \o JsonInnerMembers(d) \o "}"

\* the members of a dict of dicts
RECURSIVE JsonOuterMembers(_)
JsonOuterMembers(d) ==
    IF d = <<>> THEN ""
    ELSE JsonString(d[1][1]) \o ": " \o JsonInner(d[1][2])
         \o (IF Len(d) > 1 THEN ", " ELSE "") \o JsonOuterMembers(Tail(d))

\* json.dumps(matrices[platform])
json_dumps(d) == "{" \o JsonOuterMembers(d) \o "}"

\* f"##vso[task.setVariable variable=<name>;isOutput=true]<payload>"
MarkerPrefix(name) == "##vso[task.setVariable variable=" \o name \o ";isOutput=true]"

\* print("Setting Variables below")
PrintHeader ==
    /\ pc = "outer"
    /\ platform_index > Len(Platforms)
    /\ stdout' = Append(stdout, "Setting Variables below")
    /\ pc' = "print_windows"
    /\ UNCHANGED <<windows_build_jobs, python_versions, matrices,
                   matrix_dictionary, key, platform_index, product_index>>

PrintWindows ==
    /\ pc = "print_windows"
    /\ DictHas(matrices, "windows")
    /\ stdout' = Append(stdout, MarkerPrefix("windows")
                                    \o json_dumps(DictGet(matrices, "windows", <<>>)))
    /\ pc' = "print_linux"
    /\ UNCHANGED <<windows_build_jobs, python_versions, matrices,
                   matrix_dictionary, key, platform_index, product_index>>

PrintLinux ==
    /\ pc = "print_linux"
    /\ stdout' = Append(stdout, MarkerPrefix("linux") \o "")
    /\ pc' = "print_mac"
    /\ UNCHANGED <<windows_build_jobs, python_versions, matrices,
                   matrix_dictionary, key, platform_index, product_index>>

PrintMac ==
    /\ pc = "print_mac"
    /\ stdout' = Append(stdout, MarkerPrefix("mac") \o "")
    /\ pc' = "done"
    /\ UNCHANGED <<windows_build_jobs, python_versions, matrices,
                   matrix_dictionary, key, platform_index, product_index>>

Next ==
    \/ StartPlatform
    \/ LoopBody
    \/ LoopBodyRaises
    \/ EndPlatform
    \/ PrintHeader
    \/ PrintWindows
    \/ PrintLinux
    \/ PrintMac

Spec == Init /\ [][Next]_vars

----------------------------------------------------------------------------
(* Vocabulary of the properties *)

\* the last iteration of the inner loop stored its entry
Processed == pc = "inner" /\ product_index > 1

\* the job of the last iteration
LastJob == Combinations[product_index - 1][1]

Absent == [t |-> "absent", s |-> ""]

\* the entry stored under the last key and one of its variables
LastEntry == DictGet(matrix_dictionary, key, <<>>)
Var(entry, name) == DictGet(entry, name, Absent)

IsSet(v) == v.t = "str" /\ v.s # ""

----------------------------------------------------------------------------
(* C5: key construction *)

\* " (<value>)" when the field is set, nothing otherwise
Suffix(v, open, close) == IF IsSet(v) THEN open \o v.s \o close ELSE ""

\* C5: the key of the combination just processed is
\* "<command> <qt_version> <arch> for <target>" followed by the suffixes of
\* spec, module, subarchives and output_dir, in this order, each present
\* exactly when its field is set; nothing else of the job and nothing of the
\* python version enters the key.
C5_KeyIsBaseAndSuffixes ==
    Processed =>
        key = LastJob.command \o " " \o LastJob.qt_version \o " " \o LastJob.arch
                  \o " for " \o LastJob.target
                  \o Suffix(LastJob.spec, " (spec=\"", "\")")
                  \o Suffix(LastJob.module, " (", ")")
                  \o Suffix(LastJob.subarchives, " (", ")")
                  \o Suffix(LastJob.output_dir, " (", ")")

\* a job with all four suffix fields set has been processed
C5_Witness ==
    /\ Processed
    /\ IsSet(LastJob.spec) /\ IsSet(LastJob.module)
    /\ IsSet(LastJob.subarchives) /\ IsSet(LastJob.output_dir)
    /\ key = "install-qt 6.5.0 win64_msvc2019_64 for desktop (spec=\"6.5\") (qtcharts) (qtbase) (out)"

----------------------------------------------------------------------------
(* C8: the bin-dir paths *)

\* root + sep + vdir + sep + dir + sep + "bin" as the claim spells it out
BinDirOf(job, sep, dir) ==
    LET root == IF IsSet(job.output_dir) THEN job.output_dir.s
                ELSE "$(Build.BinariesDirectory)" \o sep \o "Qt"
        vdir == IF job.qt_version = "5.9.0" THEN "5.9" ELSE job.qt_version
    IN root \o sep \o vdir \o sep \o dir \o sep \o "bin"

\* C8: QT_BINDIR is the path with separator "/", WIN_QT_BINDIR the path with
\* separator "\", and WIN_AUTODESK_QT_BINDIR is WIN_QT_BINDIR with archdir
\* replaced by autodesk_arch_folder when that override is set and
\* WIN_QT_BINDIR itself when it is not.
C8_BinDirPaths ==
    Processed =>
        /\ Var(LastEntry, "QT_BINDIR") = Str(BinDirOf(LastJob, "/", LastJob.archdir))
        /\ Var(LastEntry, "WIN_QT_BINDIR") = Str(BinDirOf(LastJob, "\\", LastJob.archdir))
        /\ IsSet(LastJob.autodesk_arch_folder) =>
               Var(LastEntry, "WIN_AUTODESK_QT_BINDIR")
                   = Str(BinDirOf(LastJob, "\\", LastJob.autodesk_arch_folder.s))
        /\ ~IsSet(LastJob.autodesk_arch_folder) =>
               Var(LastEntry, "WIN_AUTODESK_QT_BINDIR") = Var(LastEntry, "WIN_QT_BINDIR")

\* a job of Qt 5.9.0 with output_dir and autodesk_arch_folder set has been processed
C8_Witness ==
    /\ Processed
    /\ LastJob.qt_version = "5.9.0"
    /\ IsSet(LastJob.output_dir) /\ IsSet(LastJob.autodesk_arch_folder)
    /\ Var(LastEntry, "QT_BINDIR") = Str("out/5.9/msvc2019_64/bin")
    /\ Var(LastEntry, "WIN_QT_BINDIR") = Str("out\\5.9\\msvc2019_64\\bin")
    /\ Var(LastEntry, "WIN_AUTODESK_QT_BINDIR") = Str("out\\5.9\\mingw_64\\bin")

----------------------------------------------------------------------------
(* C9: mingw_folder *)

AllDigits(s) == \A i \in 1..Len(s) : Char(s, i) \in Digits

\* s is win<A>_mingw<B> with A of length a and B of length b, both digit strings
HasShape(s, a, b) ==
    /\ a >= 1 /\ b >= 1
    /\ Len(s) = 3 + a + 6 + b
    /\ SubSeq(s, 1, 3) = "win"
    /\ AllDigits(SubSeq(s, 4, 3 + a))
    /\ SubSeq(s, 4 + a, 9 + a) = "_mingw"
    /\ AllDigits(SubSeq(s, 10 + a, Len(s)))

ExactShape(s) == \E a, b \in 1..Len(s) : HasShape(s, a, b)

\* C9: MINGW_FOLDER is "" for an empty mingw_variant and mingw<B>_<A> for a
\* mingw_variant win<A>_mingw<B>; MINGW_VARIANT is mingw_variant unchanged.
C9_MingwFolder ==
    Processed =>
        LET v == LastJob.mingw_variant
        IN /\ Var(LastEntry, "MINGW_VARIANT") = Str(v)
           /\ v = "" => Var(LastEntry, "MINGW_FOLDER") = Str("")
           /\ \A a, b \in 1..Len(v) :
                  HasShape(v, a, b) =>
                      Var(LastEntry, "MINGW_FOLDER")
                          = Str("mingw" \o SubSeq(v, 10 + a, Len(v)) \o "_"
                                    \o SubSeq(v, 4, 3 + a))

\* the shipped MinGW job has been processed
C9_Witness ==
    /\ Processed
    /\ LastJob.mingw_variant = "win32_mingw530"
    /\ Var(LastEntry, "MINGW_FOLDER") = Str("mingw530_32")

----------------------------------------------------------------------------
(* C10: EMSDK_VERSION and EMSDK_TAG *)

HasAt(s) == \E i \in 1..Len(s) : Char(s, i) = "@"

\* position of the first "@" of s at or after position from, Len(s) + 1 if none
FirstAt(s, from) ==
    IF \E i \in from..Len(s) : Char(s, i) = "@"
    THEN CHOOSE i \in from..Len(s) :
             Char(s, i) = "@" /\ \A j \in from..(i - 1) : Char(s, j) # "@"
    ELSE Len(s) + 1

\* C10: with an "@" in emsdk_version, EMSDK_VERSION is the text before the
\* first "@" and EMSDK_TAG the field that follows it (the text up to the next
\* "@" or the end); without one, EMSDK_VERSION is the whole string and
\* EMSDK_TAG is "main".
C10_EmsdkSplit ==
    Processed =>
        LET v == LastJob.emsdk_version
            i == FirstAt(v, 1)
        IN IF HasAt(v)
           THEN /\ Var(LastEntry, "EMSDK_VERSION") = Str(SubSeq(v, 1, i - 1))
                /\ Var(LastEntry, "EMSDK_TAG")
                       = Str(SubSeq(v, i + 1, FirstAt(v, i + 1) - 1))
           ELSE /\ Var(LastEntry, "EMSDK_VERSION") = Str(v)
                /\ Var(LastEntry, "EMSDK_TAG") = Str("main")

\* a job with the default emsdk_version has been processed
C10_Witness ==
    /\ Processed
    /\ LastJob.emsdk_version = "sdk-fastcomp-1.38.27-64bit@3.1.29"
    /\ Var(LastEntry, "EMSDK_VERSION") = Str("sdk-fastcomp-1.38.27-64bit")
    /\ Var(LastEntry, "EMSDK_TAG") = Str("3.1.29")

----------------------------------------------------------------------------
(* C4: the variables of an entry *)

VariableNames ==
    <<"PYTHON_VERSION", "SUBCOMMAND", "QT_VERSION", "HOST", "TARGET", "ARCH",
      "ARCHDIR", "MODULE", "QT_BASE_MIRROR", "SUBARCHIVES", "SPEC",
      "MINGW_VARIANT", "MINGW_FOLDER", "IS_AUTODESKTOP", "HAS_WASM",
      "OUTPUT_DIR", "QT_BINDIR", "WIN_QT_BINDIR", "EMSDK_VERSION", "EMSDK_TAG",
      "WIN_AUTODESK_QT_BINDIR", "TOOL1_ARGS", "LIST_TOOL1_CMD", "TEST_TOOL1_CMD",
      "TOOL2_ARGS", "LIST_TOOL2_CMD", "TEST_TOOL2_CMD", "CHECK_OUTPUT_CMD">>

ToolSlots ==
    {"TOOL1_ARGS", "LIST_TOOL1_CMD", "TEST_TOOL1_CMD",
     "TOOL2_ARGS", "LIST_TOOL2_CMD", "TEST_TOOL2_CMD"}

\* the variable that carries each optional field of a job
OptionalFields ==
    << <<"module", "MODULE">>, <<"mirror", "QT_BASE_MIRROR">>,
       <<"subarchives", "SUBARCHIVES">>, <<"spec", "SPEC">>,
       <<"output_dir", "OUTPUT_DIR">>, <<"check_output_cmd", "CHECK_OUTPUT_CMD">> >>

\* C4: every entry of the matrix being built, and of every finished matrix,
\* has the fixed variable names in the fixed order and only string values;
\* for the job just processed an unset optional field and a tool slot missing
\* from tool_options are "", HAS_WASM is "True" when list_options does not
\* set it, and a tool slot that is set has its value; the loop raises only on
\* a job whose mingw_variant is set.
C4_FixedStringVariables ==
    /\ \A m \in {matrix_dictionary} \cup {matrices[i][2] : i \in 1..Len(matrices)} :
         \A e \in 1..Len(m) :
             /\ [i \in 1..Len(m[e][2]) |-> m[e][2][i][1]] = VariableNames
             /\ \A i \in 1..Len(m[e][2]) : m[e][2][i][2].t = "str"
    /\ Processed =>
         /\ \A i \in 1..Len(OptionalFields) :
                LastJob[OptionalFields[i][1]] = None
                    => Var(LastEntry, OptionalFields[i][2]) = Str("")
         /\ \A slot \in ToolSlots :
                Var(LastEntry, slot) =
                    IF \E i \in 1..Len(LastJob.tool_options) :
                           LastJob.tool_options[i][1] = slot
                    THEN Str(LastJob.tool_options[
                                 CHOOSE i \in 1..Len(LastJob.tool_options) :
                                     LastJob.tool_options[i][1] = slot][2])
                    ELSE Str("")
         /\ (\A i \in 1..Len(LastJob.list_options) :
                 LastJob.list_options[i][1] # "HAS_WASM")
                => Var(LastEntry, "HAS_WASM") = Str("True")
    /\ pc = "error" => Combinations[product_index][1].mingw_variant # ""

\* a job with every optional field unset and no options has been processed
C4_Witness ==
    /\ Processed
    /\ \A i \in 1..Len(OptionalFields) : LastJob[OptionalFields[i][1]] = None
    /\ LastJob.tool_options = <<>> /\ LastJob.list_options = <<>>
    /\ LastJob.mingw_variant = ""
    /\ Var(LastEntry, "MODULE") = Str("") /\ Var(LastEntry, "TOOL1_ARGS") = Str("")
    /\ Var(LastEntry, "HAS_WASM") = Str("True")

\* a job that sets only TOOL1_ARGS has been processed
C4_WitnessToolSlot ==
    /\ Processed
    /\ LastJob.tool_options = << <<"TOOL1_ARGS", "tools_ifw">> >>
    /\ Var(LastEntry, "TOOL1_ARGS") = Str("tools_ifw")
    /\ \A slot \in ToolSlots \ {"TOOL1_ARGS"} : Var(LastEntry, slot) = Str("")

----------------------------------------------------------------------------
(* C7: colliding keys *)

\* the combinations processed so far
Done == product_index - 1

\* the last combination among the first n that derives the key k
LastWith(k, n) ==
    CHOOSE i \in 1..n :
        /\ MatrixKey(Combinations[i][1]) = k
        /\ \A j \in (i + 1)..n : MatrixKey(Combinations[j][1]) # k

\* C7: while a platform's matrix is built nothing is printed, and after any
\* number of iterations the dictionary has, for every key derived so far,
\* exactly one entry, which carries the variables of the last combination that
\* derived this key, and no other entry: a collision replaces the entry of
\* its key and leaves the other entries alone.  The run stops with an error
\* only at a job whose mingw_variant is set and malformed, never at a collision.
C7_LastWriteWins ==
    /\ pc = "inner" =>
        /\ stdout = <<>>
        /\ \A i \in 1..Done :
               Cardinality({e \in 1..Len(matrix_dictionary) :
                                matrix_dictionary[e][1] = MatrixKey(Combinations[i][1])}) = 1
        /\ \A e \in 1..Len(matrix_dictionary) :
               /\ \E i \in 1..Done :
                      MatrixKey(Combinations[i][1]) = matrix_dictionary[e][1]
               /\ LET l == LastWith(matrix_dictionary[e][1], Done)
                  IN matrix_dictionary[e][2]
                         = OrderedDict(MatrixVariables(Combinations[l][1],
                                                       Combinations[l][2]))
    /\ pc = "error" =>
        LET v == Combinations[product_index][1].mingw_variant
        IN v # "" /\ ~ExactShape(v)

\* the second python version of the second job has replaced the entry of the
\* first python version, next to the entry of a first job with another key
C7_Witness ==
    /\ pc = "inner" /\ Done = 4 /\ Len(python_versions) = 2
    /\ MatrixKey(Combinations[1][1]) # MatrixKey(Combinations[3][1])
    /\ Len(matrix_dictionary) = 2
    /\ Var(matrix_dictionary[1][2], "PYTHON_VERSION") = Str(python_versions[2])
    /\ Var(matrix_dictionary[2][2], "PYTHON_VERSION") = Str(python_versions[2])

\* two different jobs with the same key have been processed: one entry is left
C7_WitnessSameKeyJobs ==
    /\ pc = "inner" /\ Done = 2 /\ Len(python_versions) = 1
    /\ Combinations[1][1] # Combinations[2][1]
    /\ MatrixKey(Combinations[1][1]) = MatrixKey(Combinations[2][1])
    /\ Len(matrix_dictionary) = 1

----------------------------------------------------------------------------
(* Reading the output back *)

PlatformNames == <<"windows", "linux", "mac">>

\* the marker that opens the line of each platform category
MarkerOf ==
    <<"##vso[task.setVariable variable=windows;isOutput=true]",
      "##vso[task.setVariable variable=linux;isOutput=true]",
      "##vso[task.setVariable variable=mac;isOutput=true]">>

IsMarkerLine(line, i) == StartsWithAt(line, 1, MarkerOf[i])

\* what follows the marker
Payload(line, i) == SubSeq(line, Len(MarkerOf[i]) + 1, Len(line))

Fail == [ok |-> FALSE, val |-> <<>>, next |-> 0]

\* the characters that end a run of plain text inside a JSON string
StringSpecial == {"\"", "\\", "\n"}

\* a JSON string read from inside its quotes at position i: the text up to
\* the closing quote with the escapes \", \\ and \n undone; ok is FALSE when
\* the string is not closed or holds a raw newline or another escape
RECURSIVE ReadChars(_, _)
ReadChars(s, i) ==
    IF \A p \in i..Len(s) : Char(s, p) \notin StringSpecial
    THEN [ok |-> FALSE, val |-> "", next |-> 0]
    ELSE LET p == CHOOSE p \in i..Len(s) :
                     /\ Char(s, p) \in StringSpecial
                     /\ \A q \in i..(p - 1) : Char(s, q) \notin StringSpecial
             c == Char(s, p)
             d == Char(s, p + 1)
             r == ReadChars(s, p + 2)
         IN IF c = "\"" THEN [ok |-> TRUE, val |-> SubSeq(s, i, p - 1), next |-> p + 1]
            ELSE IF c = "\\" /\ d \in {"\"", "\\", "n"} /\ r.ok
            THEN [ok |-> TRUE,
                  val |-> SubSeq(s, i, p - 1) \o (IF d = "n" THEN "\n" ELSE d) \o r.val,
                  next |-> r.next]
            ELSE [ok |-> FALSE, val |-> "", next |-> 0]

\* a JSON string at position i: its value and the position after it
ReadString(s, i) ==
    IF Char(s, i) = "\"" THEN ReadChars(s, i + 1)
    ELSE [ok |-> FALSE, val |-> "", next |-> 0]

\* a JSON string or null
ReadValue(s, i) ==
    IF StartsWithAt(s, i, "null") THEN [ok |-> TRUE, val |-> None, next |-> i + 4]
    ELSE LET r == ReadString(s, i)
         IN [ok |-> r.ok, val |-> Str(r.val), next |-> r.next]

\* the members "name": value, ... } of an object of strings, from position i
RECURSIVE ReadInnerMembers(_, _)
ReadInnerMembers(s, i) ==
    LET k == ReadString(s, i)
        v == ReadValue(s, k.next + 2)
        r == ReadInnerMembers(s, v.next + 2)
    IN IF ~(k.ok /\ StartsWithAt(s, k.next, ": ") /\ v.ok) THEN Fail
       ELSE IF Char(s, v.next) = "}"
       THEN [ok |-> TRUE, val |-> << <<k.val, v.val>> >>, next |-> v.next + 1]
       ELSE IF StartsWithAt(s, v.next, ", ") /\ r.ok
       THEN [ok |-> TRUE, val |-> << <<k.val, v.val>> >> \o r.val, next |-> r.next]
       ELSE Fail

ReadInner(s, i) ==
    IF StartsWithAt(s, i, "{}") THEN [ok |-> TRUE, val |-> <<>>, next |-> i + 2]
    ELSE IF Char(s, i) = "{" THEN ReadInnerMembers(s, i + 1)
    ELSE Fail

\* the members of an object of objects
RECURSIVE ReadOuterMembers(_, _)
ReadOuterMembers(s, i) ==
    LET k == ReadString(s, i)
        v == ReadInner(s, k.next + 2)
        r == ReadOuterMembers(s, v.next + 2)
    IN IF ~(k.ok /\ StartsWithAt(s, k.next, ": ") /\ v.ok) THEN Fail
       ELSE IF Char(s, v.next) = "}"
       THEN [ok |-> TRUE, val |-> << <<k.val, v.val>> >>, next |-> v.next + 1]
       ELSE IF StartsWithAt(s, v.next, ", ") /\ r.ok
       THEN [ok |-> TRUE, val |-> << <<k.val, v.val>> >> \o r.val, next |-> r.next]
       ELSE Fail

\* the JSON text that s holds from position i to its end is an object of
\* objects of strings and denotes d
DenotesFrom(s, i, d) ==
    LET r == IF StartsWithAt(s, i, "{}") THEN [ok |-> TRUE, val |-> <<>>, next |-> i + 2]
             ELSE IF Char(s, i) = "{" THEN ReadOuterMembers(s, i + 1)
             ELSE Fail
    IN r.ok /\ r.next = Len(s) + 1 /\ r.val = d

\* the payload of the marker line of platform i is the JSON text of d
PayloadDenotes(line, i, d) == DenotesFrom(line, Len(MarkerOf[i]) + 1, d)

----------------------------------------------------------------------------
(* C2: the lines of the standard output *)

\* C2 as stated: the standard output of a finished run is three lines, the
\* marker lines of windows, linux and mac in this order, each with the JSON
\* encoding of the platform's matrix or the empty string for payload.
C2_ThreeMarkerLines ==
    pc = "done" =>
        /\ Len(stdout) = 3
        /\ \A i \in 1..Len(stdout) :
               /\ i <= 3 /\ IsMarkerLine(stdout[i], i)
               /\ \/ Payload(stdout[i], i) = ""
                  \/ /\ DictHas(matrices, PlatformNames[i])
                     /\ PayloadDenotes(stdout[i], i,
                                       DictGet(matrices, PlatformNames[i], <<>>))

\* C2 amended: the standard output of a finished run is the line
\* "Setting Variables below" followed by three lines, the marker lines of
\* windows, linux and mac in this order, each with the JSON encoding of the
\* platform's matrix or the empty string for payload.
C2_HeaderAndThreeMarkerLines ==
    pc = "done" =>
        /\ Len(stdout) = 4
        /\ stdout[1] = "Setting Variables below"
        /\ \A i \in 1..3 :
               /\ IsMarkerLine(stdout[i + 1], i)
               /\ \/ Payload(stdout[i + 1], i) = ""
                  \/ /\ DictHas(matrices, PlatformNames[i])
                     /\ PayloadDenotes(stdout[i + 1], i,
                                       DictGet(matrices, PlatformNames[i], <<>>))

\* a run over a catalog of two jobs with different keys, one with a spec,
\* has finished
C2_Witness ==
    /\ pc = "done"
    /\ Len(DictGet(matrices, "windows", <<>>)) = 2
    /\ \E i \in 1..Len(windows_build_jobs) : IsSet(windows_build_jobs[i].spec)
    /\ Payload(stdout[2], 1) # ""

----------------------------------------------------------------------------
(* C1: one entry per combination *)

\* C1 as stated: the matrix of a platform whose loop has finished has one
\* entry for each pair of product(jobs, python_versions): as many entries as
\* there are pairs, and under the key of each pair the variables of that pair.
C1_OneEntryPerCombination ==
    \A p \in 1..Len(matrices) :
        LET matrix == matrices[p][2]
            pairs == Product(Platforms[p].build_jobs, python_versions)
        IN /\ matrices[p][1] = Platforms[p].platform
           /\ Len(matrix) = Len(Platforms[p].build_jobs) * Len(python_versions)
           /\ \A i \in 1..Len(pairs) :
                  DictGet(matrix, MatrixKey(pairs[i][1]), <<>>)
                      = OrderedDict(MatrixVariables(pairs[i][1], pairs[i][2]))

----------------------------------------------------------------------------
(* C3: the payload of a platform with an empty catalog *)

CatalogOf == <<windows_build_jobs, linux_build_jobs, mac_build_jobs>>

\* C3 as stated: in a finished run the payload of a platform whose catalog is
\* empty is the empty string, and the payload of a platform whose catalog is
\* not empty is a JSON object.
C3_EmptyCatalogEmptyPayload ==
    pc = "done" =>
        \A i \in 1..3 :
            LET payload == Payload(stdout[i + 1], i)
            IN /\ CatalogOf[i] = <<>> => payload = ""
               /\ CatalogOf[i] # <<>> =>
                      /\ Len(payload) >= 2
                      /\ Char(payload, 1) = "{"
                      /\ Char(payload, Len(payload)) = "}"

----------------------------------------------------------------------------
(* C6: a malformed mingw_variant *)

Malformed(job) == job.mingw_variant # "" /\ ~ExactShape(job.mingw_variant)

\* C6 as stated: when a job of the catalog has a mingw_variant that is set
\* and is not of the shape win<digits>_mingw<digits>, the run never stores an
\* entry for that job and never writes a marker line.
C6_MalformedMingwAborts ==
    (\E j \in 1..Len(windows_build_jobs) : Malformed(windows_build_jobs[j])) =>
        /\ ~(Processed /\ Malformed(LastJob))
        /\ pc \notin {"print_windows", "print_linux", "print_mac", "done"}
        /\ \A l \in 1..Len(stdout) : \A i \in 1..3 : ~IsMarkerLine(stdout[l], i)

====
